---- MODULE Spec2Model ----
(***************************************************************************)
(* Leap-year checker: the leap classifier (is_leap, leap_reason), the      *)
(* sample dataset and the derived-column pipeline ensure_derived_columns   *)
(* of leap_year_app.py, with the stand-alone helpers of Frontend.py and    *)
(* Grouping.py.                                                            *)
(*                                                                         *)
(* Text is a tuple of one-character strings, so that strip, lower and the  *)
(* substring test are computed and not assumed.  A cell is a record with   *)
(* a tag t: "int", "float" (an integral float64 such as 1.0), "nan",       *)
(* "bool", "str", or "f64" (a float64 computed by the scaler).             *)
(***************************************************************************)
EXTENDS Integers, Sequences, FiniteSets, TLC

VARIABLES
  year,        \* the classifier's input cell
  result,      \* is_leap(year) of leap_year_app.py
  reason,      \* leap_reason(year) of leap_year_app.py
  fe_result,   \* is_leap(year) of Frontend.py
  grp_reason,  \* leap_reason(year) of Grouping.py
  pc,          \* position of the run
  uploaded,    \* uploaded_file is not None
  raw,         \* the table read from the upload or made by create_sample_dataset
  df,          \* the table returned by ensure_derived_columns
  error        \* the exception that ended the run, "none" if none

vars == <<year, result, reason, fe_result, grp_reason, pc, uploaded, raw, df, error>>

(*************************** bounds ***************************************)
\* the leap classifier is explored on the years -MaxYear .. MaxYear
MaxYear == 2400
\* an uploaded table has at most MaxRows rows
MaxRows == 2

(*************************** text *****************************************)
Upper == <<"A","B","C","D","E","F","G","H","I","J","K","L","M",
           "N","O","P","Q","R","S","T","U","V","W","X","Y","Z">>
Lower == <<"a","b","c","d","e","f","g","h","i","j","k","l","m",
           "n","o","p","q","r","s","t","u","v","w","x","y","z">>
Digits == <<"0","1","2","3","4","5","6","7","8","9">>
Whitespace == {" ", "\t", "\n", "\r"}

\* str.lower() on one character
LowerChar(c) ==
  IF \E i \in 1..26 : Upper[i] = c
  THEN Lower[CHOOSE i \in 1..26 : Upper[i] = c]
  ELSE c

\* str.lower()
StrLower(s) == [i \in 1..Len(s) |-> LowerChar(s[i])]

\* str.strip(): drop the leading and the trailing whitespace
RECURSIVE LStrip(_)
LStrip(s) ==
  IF s # <<>> /\ Head(s) \in Whitespace THEN LStrip(Tail(s)) ELSE s

RECURSIVE RStrip(_)
RStrip(s) ==
  IF s # <<>> /\ s[Len(s)] \in Whitespace
  THEN RStrip(SubSeq(s, 1, Len(s) - 1)) ELSE s

StrStrip(s) == RStrip(LStrip(s))

\* Python's `sub in s` on text
Contains(sub, s) ==
  \E i \in 1..(Len(s) - Len(sub) + 1) : SubSeq(s, i, i + Len(sub) - 1) = sub

IsDigit(c) == \E i \in 1..10 : Digits[i] = c
DigitVal(c) == (CHOOSE i \in 1..10 : Digits[i] = c) - 1

\* value of a non-empty run of decimal digits
RECURSIVE DigitsVal(_)
DigitsVal(s) ==
  IF s = <<>> THEN 0
  ELSE 10 * DigitsVal(SubSeq(s, 1, Len(s) - 1)) + DigitVal(s[Len(s)])

\* str() of a non-negative integer
RECURSIVE NatStr(_)
NatStr(n) ==
  IF n < 10 THEN <<Digits[n + 1]>>
  ELSE NatStr(n \div 10) \o <<Digits[(n % 10) + 1]>>

\* str() of an integer
IntStr(n) == IF n < 0 THEN <<"-">> \o NatStr(0 - n) ELSE NatStr(n)

(*************************** cells ****************************************)
NaN == [t |-> "nan"]
Int_(n) == [t |-> "int", v |-> n]
Float_(n) == [t |-> "float", v |-> n]
Bool_(b) == [t |-> "bool", v |-> b]
Str_(s) == [t |-> "str", v |-> s]

\* pd.isna on a cell
IsNa(c) == c.t = "nan"

(*************************** leap classifier ******************************)
DivisibleBy400 ==
  <<"D","i","v","i","s","i","b","l","e"," ","b","y"," ","4","0","0">>
DivisibleBy100 ==
  <<"D","i","v","i","s","i","b","l","e"," ","b","y"," ","1","0","0",
    " ","b","u","t"," ","n","o","t"," ","4","0","0">>
DivisibleBy4 ==
  <<"D","i","v","i","s","i","b","l","e"," ","b","y"," ","4",
    " ","b","u","t"," ","n","o","t"," ","1","0","0">>
NotDivisibleBy4 ==
  <<"N","o","t"," ","d","i","v","i","s","i","b","l","e"," ","b","y"," ","4">>
InvalidYear == <<"I","n","v","a","l","i","d"," ","y","e","a","r">>

\* int(year) on a numeric cell; True and False count as 1 and 0
IntOf(c) == IF c.t = "bool" THEN (IF c.v THEN 1 ELSE 0) ELSE c.v

\* is_leap with the century rule left out
is_leap_NoCentury(c) ==
  IF IsNa(c) THEN FALSE
  ELSE LET y == IntOf(c) IN
       IF y % 400 = 0 THEN TRUE
       ELSE IF y % 4 = 0 THEN TRUE
       ELSE FALSE

\* is_leap of leap_year_app.py, on a cell
is_leap(c) ==
  IF IsNa(c) THEN FALSE
  ELSE LET y == IntOf(c) IN
       IF y % 400 = 0 THEN TRUE
       ELSE IF y % 100 = 0 THEN FALSE
       ELSE IF y % 4 = 0 THEN TRUE
       ELSE FALSE

\* leap_reason testing 4 ahead of 100
leap_reason_FourFirst(c) ==
  IF IsNa(c) THEN InvalidYear
  ELSE LET y == IntOf(c) IN
       IF y % 400 = 0 THEN DivisibleBy400
       ELSE IF y % 4 = 0 THEN DivisibleBy4
       ELSE IF y % 100 = 0 THEN DivisibleBy100
       ELSE NotDivisibleBy4

\* leap_reason of leap_year_app.py, on a cell
leap_reason(c) ==
  IF IsNa(c) THEN InvalidYear
  ELSE LET y == IntOf(c) IN
       IF y % 400 = 0 THEN DivisibleBy400
       ELSE IF y % 100 = 0 THEN DivisibleBy100
       ELSE IF y % 4 = 0 THEN DivisibleBy4
       ELSE NotDivisibleBy4

\* `year % k == 0` without a missing-value guard: nan % k is nan, and nan == 0
\* is False
ModIsZero(c, k) == ~IsNa(c) /\ IntOf(c) % k = 0

\* is_leap of Frontend.py, on a cell
Frontend_is_leap(c) ==
  IF ModIsZero(c, 400) THEN TRUE
  ELSE IF ModIsZero(c, 100) THEN FALSE
  ELSE IF ModIsZero(c, 4) THEN TRUE
  ELSE FALSE

\* leap_reason of Grouping.py, on a cell
Grouping_leap_reason(c) ==
  IF ModIsZero(c, 400) THEN DivisibleBy400
  ELSE IF ModIsZero(c, 100) THEN DivisibleBy100
  ELSE IF ModIsZero(c, 4) THEN DivisibleBy4
  ELSE NotDivisibleBy4

(*************************** float64 arithmetic **************************)
(* MinMaxScaler works in IEEE-754 binary64.  A non-negative binary64 is    *)
(* kept exactly, as num * 2^(-exp) with num a natural number written in    *)
(* little-endian limbs of LimbBits bits (no leading zero limb; zero is     *)
(* the empty tuple), so that no intermediate value leaves 32 bits.         *)
(* Every operation below rounds to nearest, ties to even, to Mantissa      *)
(* significant bits.  Exponent range is never left for years below 2^15.   *)
(***************************************************************************)
LimbBits == 15
Base == 2 ^ LimbBits
\* significant bits of a binary64
Mantissa == 53

RECURSIVE BigNorm(_)
BigNorm(b) ==
  IF b # <<>> /\ b[Len(b)] = 0 THEN BigNorm(SubSeq(b, 1, Len(b) - 1)) ELSE b

RECURSIVE BigMulCarry(_, _, _)
BigMulCarry(b, n, c) ==
  IF b = <<>>
  THEN (IF c = 0 THEN <<>> ELSE <<c % Base>> \o BigMulCarry(<<>>, n, c \div Base))
  ELSE LET v == Head(b) * n + c
       IN  <<v % Base>> \o BigMulCarry(Tail(b), n, v \div Base)

\* b * n for a small natural n
BigMulSmall(b, n) == BigNorm(BigMulCarry(b, n, 0))

\* b + n for a small natural n
BigAddSmall(b, n) == BigNorm(BigMulCarry(b, 1, n))

\* quotient and remainder of b by a small positive n, most significant limb first
RECURSIVE BigDivRem(_, _)
BigDivRem(b, n) ==
  IF b = <<>> THEN [q |-> <<>>, r |-> 0]
  ELSE LET hi == BigDivRem(Tail(b), n)
           v == hi.r * Base + Head(b)
       IN  [q |-> <<v \div n>> \o hi.q, r |-> v % n]

RECURSIVE BigSubBorrow(_, _, _)
BigSubBorrow(a, b, borrow) ==
  IF a = <<>> THEN <<>>
  ELSE LET sub == (IF b = <<>> THEN 0 ELSE Head(b)) + borrow
           v == Head(a) - sub
       IN  <<v % Base>> \o
           BigSubBorrow(Tail(a), IF b = <<>> THEN <<>> ELSE Tail(b),
                        IF v < 0 THEN 1 ELSE 0)

\* a - b, for a >= b
BigSub(a, b) == BigNorm(BigSubBorrow(a, b, 0))

\* a <= b on normalised limbs
RECURSIVE BigLe(_, _)
BigLe(a, b) ==
  IF Len(a) # Len(b) THEN Len(a) < Len(b)
  ELSE IF a = <<>> THEN TRUE
  ELSE IF a[Len(a)] # b[Len(b)] THEN a[Len(a)] < b[Len(b)]
  ELSE BigLe(SubSeq(a, 1, Len(a) - 1), SubSeq(b, 1, Len(b) - 1))

RECURSIVE BitLen(_)
BitLen(n) == IF n = 0 THEN 0 ELSE 1 + BitLen(n \div 2)

BigBitLen(b) ==
  IF b = <<>> THEN 0 ELSE (Len(b) - 1) * LimbBits + BitLen(b[Len(b)])

\* 2^k as limbs
BigPow2(k) ==
  [i \in 1..(k \div LimbBits) |-> 0] \o <<2 ^ (k % LimbBits)>>

\* round-to-nearest-even of (q + r/d), 0 <= r < d
RoundNearestEven(qr, d) ==
  IF 2 * qr.r > d \/ (2 * qr.r = d /\ qr.q # <<>> /\ Head(qr.q) % 2 = 1)
  THEN BigAddSmall(BigNorm(qr.q), 1)
  ELSE BigNorm(qr.q)

\* the nearest value with at most Mantissa significant bits
RoundToMantissa(b) ==
  IF BigBitLen(b) <= Mantissa THEN b
  ELSE LET d == 2 ^ (BigBitLen(b) - Mantissa)
       IN  BigMulSmall(RoundNearestEven(BigDivRem(b, d), d), d)

F64(num, exp) == [t |-> "f64", num |-> num, exp |-> exp]

(*************************** MinMaxScaler *********************************)
\* sklearn's _handle_zeros_in_scale: a zero range scales by 1
HandleZerosInScale(range) == IF range = 0 THEN 1 ELSE range

\* exponent of the unit in which scale_ = 1.0 / range is kept
ScaleExp(range) == (Mantissa - 1) + BitLen(HandleZerosInScale(range))

\* scale_ = (1 - 0) / range, in units of 2^(-ScaleExp(range))
ScaleOf(range) ==
  LET r == HandleZerosInScale(range)
  IN  RoundNearestEven(BigDivRem(BigPow2(ScaleExp(range)), r), r)

\* X * scale_ + min_ with min_ = 0 - data_min * scale_, for x >= data_min >= 0
MinMaxTransform(x, data_min, data_max) ==
  LET range == data_max - data_min
      scale == ScaleOf(range)
      xs == RoundToMantissa(BigMulSmall(scale, x))
      ms == RoundToMantissa(BigMulSmall(scale, data_min))
  IN  F64(RoundToMantissa(BigSub(xs, ms)), ScaleExp(range))

\* comparisons of an f64 cell with 0 and 1
F64IsZero(c) == c.num = <<>>
F64IsOne(c) == c.num = BigPow2(c.exp)
F64LeOne(c) == BigLe(c.num, BigPow2(c.exp))

(*************************** tables ***************************************)
(* A DataFrame: its column labels in order, one tuple of n cells per       *)
(* column.  Labels are distinct, as read_csv makes them.                   *)
(***************************************************************************)
NoTable == [columns |-> <<>>, data |-> <<>>, n |-> 0]

YearName == <<"Y","e","a","r">>
IsLeapYearName == <<"I","s","_","L","e","a","p","_","Y","e","a","r">>
LeapCodeName == <<"L","e","a","p","_","C","o","d","e">>
LeapReasonName == <<"L","e","a","p","_","R","e","a","s","o","n">>
YearNormalizedName ==
  <<"Y","e","a","r","_","N","o","r","m","a","l","i","z","e","d">>

\* `name in df.columns`
HasColumn(t, name) == \E j \in 1..Len(t.columns) : t.columns[j] = name

ColumnIndex(t, name) == CHOOSE j \in 1..Len(t.columns) : t.columns[j] = name

\* df[name]
Column(t, name) == t.data[ColumnIndex(t, name)]

\* df[name] = cells: replaces the column in place, or appends a new last column
SetColumn(t, name, cells) ==
  IF HasColumn(t, name)
  THEN [t EXCEPT !.data[ColumnIndex(t, name)] = cells]
  ELSE [t EXCEPT !.columns = Append(@, name), !.data = Append(@, cells)]

\* df.rename(columns={old: new})
RenameColumn(t, old, new) ==
  [t EXCEPT !.columns =
     [j \in 1..Len(t.columns) |->
        IF t.columns[j] = old THEN new ELSE t.columns[j]]]

(*************************** dtypes and conversions ***********************)
\* the dtype pandas gives a column holding these cells
Dtype(cells) ==
  IF cells # <<>> /\ \A i \in 1..Len(cells) : cells[i].t = "bool" THEN "bool"
  ELSE IF cells # <<>> /\ \A i \in 1..Len(cells) : cells[i].t = "int"
       THEN "int64"
  ELSE IF cells # <<>> /\ \A i \in 1..Len(cells) : cells[i].t \in {"float", "nan"}
       THEN "float64"
  ELSE "object"

\* the number a text denotes, NaN if none (errors="coerce").  Surrounding
\* whitespace is skipped; the texts met here are decimal integers or words.
ParseNumber(s) ==
  LET body == StrStrip(s)
      neg == body # <<>> /\ Head(body) = "-"
      digits == IF body # <<>> /\ Head(body) \in {"-", "+"} THEN Tail(body) ELSE body
  IN  IF digits # <<>> /\ \A i \in 1..Len(digits) : IsDigit(digits[i])
      THEN Int_(IF neg THEN 0 - DigitsVal(digits) ELSE DigitsVal(digits))
      ELSE NaN

\* pd.to_numeric(column, errors="coerce"): a numeric or bool column is returned
\* as it is; an object column of texts and missing values is parsed, and is
\* float64 as soon as one value is missing, int64 otherwise
to_numeric(cells) ==
  IF Dtype(cells) \in {"bool", "int64", "float64"} THEN cells
  ELSE LET parsed == [i \in 1..Len(cells) |->
                        CASE cells[i].t = "str" -> ParseNumber(cells[i].v)
                          [] cells[i].t = "nan" -> NaN
                          [] cells[i].t \in {"int", "float"} -> cells[i]]
       IN  IF \E i \in 1..Len(parsed) : IsNa(parsed[i])
           THEN [i \in 1..Len(parsed) |->
                   IF parsed[i].t = "int" THEN Float_(parsed[i].v) ELSE parsed[i]]
           ELSE parsed

TrueText == <<"T","r","u","e">>
FalseText == <<"F","a","l","s","e">>
NanText == <<"n","a","n">>

\* Series.astype(str) on one cell
AsStr(c) ==
  CASE c.t = "str" -> c.v
    [] c.t = "int" -> IntStr(c.v)
    [] c.t = "float" -> IntStr(c.v) \o <<".", "0">>
    [] c.t = "bool" -> (IF c.v THEN TrueText ELSE FalseText)
    [] c.t = "nan" -> NanText

\* the texts standardised to True
TrueTokens == { <<"t","r","u","e">>, <<"1">>, <<"y","e","s">> }

\* .astype(str).str.strip().str.lower().isin(["true", "1", "yes"]) on one cell
StandardizeFlag(c) == Bool_(StrLower(StrStrip(AsStr(c))) \in TrueTokens)

\* Series.astype(int) on a bool cell
BoolToInt(c) == Int_(IF c.v THEN 1 ELSE 0)

\* df["Year"].apply(is_leap)
ApplyIsLeap(cells) == [i \in 1..Len(cells) |-> Bool_(is_leap(cells[i]))]

\* df["Year"].apply(leap_reason)
ApplyLeapReason(cells) == [i \in 1..Len(cells) |-> Str_(leap_reason(cells[i]))]

\* the standardisation of step 3 on a whole column
StandardizeColumn(cells) == [i \in 1..Len(cells) |-> StandardizeFlag(cells[i])]

(*************************** ensure_derived_columns ***********************)
YearLower == <<"y","e","a","r">>

\* the year-like columns, matched without c.lower()
year_like_CaseSensitive(columns) ==
  SelectSeq(columns, LAMBDA c : Contains(YearLower, c))

\* [c for c in df.columns if "year" in c.lower()]
year_like(columns) ==
  SelectSeq(columns, LAMBDA c : Contains(YearLower, StrLower(c)))

\* step 1 renaming the last year-like column, not the first
EnsureYearColumn_LastMatch(t) ==
  IF HasColumn(t, YearName) THEN [ok |-> TRUE, table |-> t]
  ELSE IF year_like(t.columns) # <<>>
       THEN [ok |-> TRUE,
             table |-> RenameColumn(t, year_like(t.columns)[Len(year_like(t.columns))],
                                    YearName)]
  ELSE [ok |-> FALSE, table |-> NoTable]

\* step 1: a column named Year, else the first year-like column renamed to
\* Year, else ValueError
EnsureYearColumn(t) ==
  IF HasColumn(t, YearName) THEN [ok |-> TRUE, table |-> t]
  ELSE IF year_like(t.columns) # <<>>
       THEN [ok |-> TRUE,
             table |-> RenameColumn(t, year_like(t.columns)[1], YearName)]
  ELSE [ok |-> FALSE, table |-> NoTable]

\* step 2: df["Year"] = pd.to_numeric(df["Year"], errors="coerce")
EnsureYearNumeric(t) == SetColumn(t, YearName, to_numeric(Column(t, YearName)))

\* step 3 without the dtype guard and without astype(str): the .str accessor
\* gives no text for a cell that is not text, and isin is then False
EnsureIsLeapYear_NoDtypeGuard(t) ==
  IF ~HasColumn(t, IsLeapYearName)
  THEN SetColumn(t, IsLeapYearName,
                 ApplyIsLeap(Column(t, YearName)))
  ELSE SetColumn(t, IsLeapYearName,
                 [i \in 1..t.n |->
                    IF Column(t, IsLeapYearName)[i].t = "str"
                    THEN StandardizeFlag(Column(t, IsLeapYearName)[i])
                    ELSE Bool_(FALSE)])

\* step 3 trusting the year to be a leap year every fourth year
EnsureIsLeapYear_Julian(t) ==
  IF ~HasColumn(t, IsLeapYearName)
  THEN SetColumn(t, IsLeapYearName,
                 [i \in 1..t.n |->
                    Bool_(~IsNa(Column(t, YearName)[i])
                            /\ IntOf(Column(t, YearName)[i]) % 4 = 0)])
  ELSE IF Dtype(Column(t, IsLeapYearName)) # "bool"
       THEN SetColumn(t, IsLeapYearName,
                      StandardizeColumn(Column(t, IsLeapYearName)))
  ELSE t

\* step 3: Is_Leap_Year computed from Year when absent, standardised to bool
\* when present with another dtype, left alone when already bool
EnsureIsLeapYear(t) ==
  IF ~HasColumn(t, IsLeapYearName)
  THEN SetColumn(t, IsLeapYearName,
                 ApplyIsLeap(Column(t, YearName)))
  ELSE IF Dtype(Column(t, IsLeapYearName)) # "bool"
       THEN SetColumn(t, IsLeapYearName,
                      StandardizeColumn(Column(t, IsLeapYearName)))
  ELSE t

\* step 4 keeping a Leap_Code column the input carried
EnsureLeapCode_KeepExisting(t) ==
  IF HasColumn(t, LeapCodeName) THEN t
  ELSE SetColumn(t, LeapCodeName, [i \in 1..t.n |-> BoolToInt(Column(t, IsLeapYearName)[i])])

\* step 4: df["Leap_Code"] = df["Is_Leap_Year"].astype(int)
EnsureLeapCode(t) ==
  SetColumn(t, LeapCodeName, [i \in 1..t.n |-> BoolToInt(Column(t, IsLeapYearName)[i])])

\* step 5: Leap_Reason computed from Year only when absent
EnsureLeapReason(t) ==
  IF ~HasColumn(t, LeapReasonName)
  THEN SetColumn(t, LeapReasonName,
                 ApplyLeapReason(Column(t, YearName)))
  ELSE t

\* the numbers of a numeric column, missing values left out
ValidYears(cells) == { IntOf(cells[i]) : i \in { j \in 1..Len(cells) : ~IsNa(cells[j]) } }
SetMin(S) == CHOOSE x \in S : \A y \in S : x <= y
SetMax(S) == CHOOSE x \in S : \A y \in S : y <= x

\* MinMaxScaler().fit_transform(df[["Year"]]): fitted on the valid years,
\* missing values passed through
fit_transform(cells) ==
  LET data_min == SetMin(ValidYears(cells))
      data_max == SetMax(ValidYears(cells))
  IN  [i \in 1..Len(cells) |->
         IF IsNa(cells[i]) THEN NaN
         ELSE MinMaxTransform(IntOf(cells[i]), data_min, data_max)]

\* step 6: Year_Normalized, np.nan on every row when no Year is valid
EnsureYearNormalized(t) ==
  IF ValidYears(Column(t, YearName)) # {}
  THEN SetColumn(t, YearNormalizedName, fit_transform(Column(t, YearName)))
  ELSE SetColumn(t, YearNormalizedName, [i \in 1..t.n |-> NaN])

\* ensure_derived_columns(df): the new table, or ok = FALSE for ValueError
ensure_derived_columns(t) ==
  LET located == EnsureYearColumn(t)
  IN  IF ~located.ok THEN located
      ELSE [ok |-> TRUE,
            table |-> EnsureYearNormalized(EnsureLeapReason(EnsureLeapCode(
                        EnsureIsLeapYear(EnsureYearNumeric(located.table)))))]

(*************************** sample dataset *******************************)
\* range(1900, 2051)
SampleStart == 1900
SampleStop == 2051

\* the sample made with range(1900, 2050)
create_sample_dataset_OffByOne ==
  LET years == [i \in 1..(SampleStop - 1 - SampleStart) |-> Int_(SampleStart + i - 1)]
  IN  [columns |-> <<YearName, IsLeapYearName>>,
       data |-> <<years, ApplyIsLeap(years)>>,
       n |-> SampleStop - 1 - SampleStart]

\* create_sample_dataset()
create_sample_dataset ==
  LET years == [i \in 1..(SampleStop - SampleStart) |-> Int_(SampleStart + i - 1)]
  IN  [columns |-> <<YearName, IsLeapYearName>>,
       data |-> <<years, ApplyIsLeap(years)>>,
       n |-> SampleStop - SampleStart]

(*************************** uploaded tables ******************************)
(* What pd.read_csv hands over: every column has one dtype.  An int64      *)
(* column holds integers, a float64 column floats and missing values, a    *)
(* bool column booleans, an object column texts and missing values.        *)
(***************************************************************************)
UpperYearName == <<"Y","E","A","R">>
LowerYearName == <<"y","e","a","r">>
BirthYearName == <<"B","i","r","t","h","_","Y","e","a","r">>
NoteName == <<"N","o","t","e">>

YearInts == {Int_(1900), Int_(1901), Int_(2000), Int_(2024), Int_(2025)}
YearFloats == {Float_(2024), NaN}
YearTexts == {Str_(<<"2","0","2","4">>), Str_(<<"a","b","c">>), NaN}
FewYears == {Int_(1900), Int_(2000), Int_(2023)}

FlagBools == {Bool_(TRUE), Bool_(FALSE)}
FlagInts == {Int_(0), Int_(1)}
FlagFloats == {Float_(1), NaN}
FlagTexts == {Str_(<<" ","Y","e","s"," ">>), Str_(<<"1">>), Str_(<<"T","R","U","E">>),
              Str_(<<"n","o">>), Str_(<<>>), NaN}

NoteCell == Str_(<<"x">>)
CustomReason == Str_(<<"c","u","s","t","o","m">>)

Const(n, c) == [i \in 1..n |-> c]

YearColumns(n) == [1..n -> YearInts] \cup [1..n -> YearFloats] \cup [1..n -> YearTexts]

FlagColumns(n) ==
  [1..n -> FlagBools] \cup [1..n -> FlagInts] \cup [1..n -> FlagFloats]
    \cup [1..n -> FlagTexts]

Table(columns, data, n) == [columns |-> columns, data |-> data, n |-> n]

\* one year-like column under three spellings
YearOnlyTables(n) ==
  { Table(<<name>>, <<ys>>, n) :
      name \in {YearName, UpperYearName, BirthYearName}, ys \in YearColumns(n) }

\* no year-like column
NoYearTables(n) ==
  { Table(<<NoteName>>, <<Const(n, NoteCell)>>, n),
    Table(<<NoteName, LeapCodeName>>, <<Const(n, NoteCell), Const(n, Int_(1))>>, n) }

\* several year-like columns
ManyYearTables(n) ==
  { Table(<<NoteName, UpperYearName, YearName>>,
          <<Const(n, NoteCell), Const(n, Int_(2000)), ys>>, n) :
      ys \in [1..n -> {Int_(1900), Int_(2023)}] }
  \cup
  { Table(<<NoteName, BirthYearName, UpperYearName>>,
          <<Const(n, NoteCell), ys, Const(n, Int_(1900))>>, n) :
      ys \in [1..n -> {Int_(2000), Int_(2023)}] }

\* Year with a supplied Is_Leap_Year
FlagTables(n) ==
  { Table(<<YearName, IsLeapYearName>>, <<ys, fs>>, n) :
      ys \in [1..n -> FewYears], fs \in FlagColumns(n) }

\* Is_Leap_Year ahead of a lower-case year column, and no column named Year
FlagFirstTables(n) ==
  { Table(<<IsLeapYearName, LowerYearName>>, <<fs, Const(n, Int_(2024))>>, n) :
      fs \in FlagColumns(n) }

\* Year with a supplied Leap_Code, Leap_Reason or Year_Normalized
DerivedTables(n) ==
  { Table(<<YearName, LeapCodeName>>, <<ys, cs>>, n) :
      ys \in [1..n -> {Int_(1900), Int_(2000)}],
      cs \in [1..n -> {Int_(0), Int_(1), Int_(7)}] }
  \cup
  { Table(<<YearName, IsLeapYearName, LeapCodeName>>,
          <<Const(n, Int_(2000)), fs, cs>>, n) :
      fs \in [1..n -> {Str_(<<"1">>), Str_(<<"n","o">>)}],
      cs \in [1..n -> {Int_(0), Int_(7)}] }
  \cup
  { Table(<<YearName, LeapReasonName>>, <<ys, rs>>, n) :
      ys \in [1..n -> {Int_(1900), Int_(2000)}],
      rs \in [1..n -> {Str_(DivisibleBy400), CustomReason}] }
  \cup
  { Table(<<YearName, YearNormalizedName>>, <<ys, Const(n, Int_(5))>>, n) :
      ys \in [1..n -> {Int_(1900), Int_(2000)}] }

UploadTables ==
  UNION { YearOnlyTables(n) \cup NoYearTables(n) \cup ManyYearTables(n)
            \cup FlagTables(n) \cup FlagFirstTables(n) \cup DerivedTables(n) :
          n \in 0..MaxRows }

(*************************** the application ******************************)
Init ==
  /\ pc = "start"
  /\ uploaded = FALSE
  /\ raw = NoTable
  /\ df = NoTable
  /\ error = "none"
  /\ year = NaN
  /\ result = FALSE
  /\ reason = <<>>
  /\ fe_result = FALSE
  /\ grp_reason = <<>>

\* main(): df = ensure_derived_columns(df) on a table; ValueError ends the run
\* with no table
Derive(t) ==
  LET r == ensure_derived_columns(t)
  IN  /\ raw' = t
      /\ IF r.ok
         THEN df' = r.table /\ error' = "none" /\ pc' = "loaded"
         ELSE df' = df /\ error' = "ValueError" /\ pc' = "failed"
      /\ UNCHANGED <<year, result, reason, fe_result, grp_reason>>

\* main() with an uploaded file: df = pd.read_csv(uploaded_file), then derive
MainUpload ==
  /\ pc = "start"
  /\ uploaded' = TRUE
  /\ \E t \in UploadTables : Derive(t)

\* main() without an upload: df = create_sample_dataset(), then derive
MainSample ==
  /\ pc = "start"
  /\ uploaded' = FALSE
  /\ Derive(create_sample_dataset)

\* ensure_derived_columns applied to the table it returned
Renormalize ==
  /\ pc = "loaded"
  /\ LET r == ensure_derived_columns(df)
     IN  IF r.ok
         THEN df' = r.table /\ error' = "none" /\ pc' = "renormalized"
         ELSE df' = NoTable /\ error' = "ValueError" /\ pc' = "failed"
  /\ UNCHANGED <<uploaded, raw, year, result, reason, fe_result, grp_reason>>

Next == MainUpload \/ MainSample \/ Renormalize

Spec == Init /\ [][Next]_vars

(*************************** the classifier alone *************************)
ClassifierInputs == {Int_(y) : y \in (0 - MaxYear)..MaxYear} \cup {NaN}

InitClassifier ==
  /\ pc = "input"
  /\ uploaded = FALSE
  /\ year \in ClassifierInputs
  /\ result = FALSE
  /\ reason = <<>>
  /\ fe_result = FALSE
  /\ grp_reason = <<>>
  /\ raw = NoTable
  /\ df = NoTable
  /\ error = "none"

\* the three helpers applied to the input
Classify ==
  /\ pc = "input"
  /\ pc' = "classified"
  /\ result' = is_leap(year)
  /\ reason' = leap_reason(year)
  /\ fe_result' = Frontend_is_leap(year)
  /\ grp_reason' = Grouping_leap_reason(year)
  /\ UNCHANGED <<year, uploaded, raw, df, error>>

NextClassifier == Classify

SpecClassifier == InitClassifier /\ [][NextClassifier]_vars

(*************************** properties ***********************************)
\* the Gregorian rule, as the specification states it
Gregorian(y) == (y % 400 = 0) \/ (y % 4 = 0 /\ y % 100 # 0)

\* a cell holds a valid year for which the Gregorian rule holds
GregorianCell(c) == ~IsNa(c) /\ Gregorian(IntOf(c))

\* a column label holds "year" in any case
NameHasYear(c) ==
  \E i \in 1..(Len(c) - 3) :
     /\ LowerChar(c[i]) = "y"
     /\ LowerChar(c[i + 1]) = "e"
     /\ LowerChar(c[i + 2]) = "a"
     /\ LowerChar(c[i + 3]) = "r"

\* a table was returned
Returned == pc \in {"loaded", "renormalized"}

\* C1: for every integer year y, is_leap(y) is true if and only if
\* y % 400 = 0, or y % 4 = 0 and y % 100 # 0 (both is_leap helpers).
C1_IsLeapIffGregorian ==
  (pc = "classified" /\ year.t = "int") =>
     /\ result <=> Gregorian(year.v)
     /\ fe_result <=> Gregorian(year.v)

\* C1 witness: a century year that is not a leap year has been classified
C1_Witness ==
  pc = "classified" /\ year = Int_(1900) /\ result = FALSE /\ fe_result = FALSE

FourReasons == {DivisibleBy400, DivisibleBy100, DivisibleBy4, NotDivisibleBy4}

\* C2: for every integer year, leap_reason is one of the four fixed texts,
\* and is_leap is true exactly when the reason is "Divisible by 400" or
\* "Divisible by 4 but not 100".
C2_ReasonAgreesWithIsLeap ==
  (pc = "classified" /\ year.t = "int") =>
     /\ reason \in FourReasons
     /\ result <=> reason \in {DivisibleBy400, DivisibleBy4}

\* C2 witness: a year divisible by 400 has been classified and explained
C2_Witness ==
  pc = "classified" /\ year = Int_(2000) /\ result = TRUE /\ reason = DivisibleBy400

\* C3: the run fails with the schema error, and returns no table, exactly
\* when no column is named Year and no column label holds "year" in any case.
C3_SchemaErrorIffNoYearColumn ==
  pc # "start" =>
     /\ error = "ValueError" <=>
          ~\E j \in 1..Len(raw.columns) :
              raw.columns[j] = YearName \/ NameHasYear(raw.columns[j])
     /\ error = "ValueError" => (pc = "failed" /\ df = NoTable)
     /\ error # "ValueError" => Returned

\* C3 witness: a table with rows and no year column was refused
C3_Witness ==
  pc = "failed" /\ error = "ValueError" /\ raw.n > 0 /\ Len(raw.columns) = 2
    /\ df = NoTable

\* the text of a raw cell is whitespace, then true, 1 or yes in any case,
\* then whitespace
IsTrueToken(s) ==
  \E i \in 1..(Len(s) + 1), j \in 0..Len(s) :
     /\ \A k \in 1..(i - 1) : s[k] \in Whitespace
     /\ \A k \in (j + 1)..Len(s) : s[k] \in Whitespace
     /\ i <= j
     /\ [k \in 1..(j - i + 1) |-> LowerChar(s[i + k - 1])] \in TrueTokens

\* C4: when the input carries an Is_Leap_Year column, each row's canonical
\* Is_Leap_Year is true if the raw token, trimmed and lower-cased, is true,
\* 1 or yes, and false for every other token.
C4_SuppliedFlagCoerced ==
  (pc = "loaded" /\ HasColumn(raw, IsLeapYearName)) =>
     \A i \in 1..raw.n :
        Column(df, IsLeapYearName)[i]
          = Bool_(IsTrueToken(AsStr(Column(raw, IsLeapYearName)[i])))

\* C5: in every returned table every row has Leap_Code in {0, 1}, and
\* Leap_Code = 1 exactly when its Is_Leap_Year is true, whatever Leap_Code
\* the input carried.
C5_LeapCodeMatchesFlag ==
  Returned =>
     /\ Len(Column(df, LeapCodeName)) = df.n
     /\ \A i \in 1..df.n :
          /\ Column(df, LeapCodeName)[i] \in {Int_(0), Int_(1)}
          /\ Column(df, LeapCodeName)[i] = Int_(1)
               <=> Column(df, IsLeapYearName)[i] = Bool_(TRUE)

\* C5 witness: the input carried Leap_Code = 7 on a leap year's row, and the
\* returned table carries 1 there
C5_Witness ==
  /\ pc = "loaded" /\ HasColumn(raw, LeapCodeName) /\ raw.n > 0
  /\ Column(raw, LeapCodeName)[1] = Int_(7)
  /\ Column(df, IsLeapYearName)[1] = Bool_(TRUE)
  /\ Column(df, LeapCodeName)[1] = Int_(1)

\* C6: in every returned table each row with a valid Year has
\* 0 <= Year_Normalized <= 1; when min # max the rows with the minimum Year
\* have 0 and the rows with the maximum Year have 1; when no row has a valid
\* Year every row has no value.  (A float64 is never below 0 here.)
C6_NormalizedBounds ==
  Returned =>
     LET ys == Column(df, YearName)
         ns == Column(df, YearNormalizedName)
         valid == ValidYears(ys)
     IN  \A i \in 1..df.n :
            IF IsNa(ys[i]) THEN valid = {} => IsNa(ns[i])
            ELSE /\ ns[i].t = "f64"
                 /\ F64LeOne(ns[i])
                 /\ SetMin(valid) # SetMax(valid) =>
                      /\ IntOf(ys[i]) = SetMin(valid) => F64IsZero(ns[i])
                      /\ IntOf(ys[i]) = SetMax(valid) => F64IsOne(ns[i])

\* C7: ensure_derived_columns is idempotent: applied to the table it
\* returned, it returns that table again, in all columns and rows.
C7_Idempotent ==
  [][(pc = "loaded" /\ pc' = "renormalized") => df' = df]_vars

\* C7 witness: a table whose year column was renamed and whose flags were
\* standardised from text has been put through the pipeline twice
C7_Witness ==
  /\ pc = "renormalized" /\ raw.n = 2
  /\ raw.columns = <<IsLeapYearName, LowerYearName>>
  /\ Dtype(raw.data[1]) = "object"
  /\ df # raw

\* C8 as stated: in every returned table every row's Is_Leap_Year is true
\* if and only if the Gregorian rule holds for its Year, whether the flag
\* was computed or supplied.
C8_FlagIffGregorian ==
  Returned =>
     \A i \in 1..df.n :
        Column(df, IsLeapYearName)[i] = Bool_(GregorianCell(Column(df, YearName)[i]))

\* the pipeline computed Is_Leap_Year itself: once the year column was
\* chosen the table had no column of that name
FlagComputed ==
  \/ ~HasColumn(raw, IsLeapYearName)
  \/ raw.columns[ColumnIndex(df, YearName)] = IsLeapYearName

\* C8 amended: when the pipeline computed Is_Leap_Year itself, every row's
\* flag is true if and only if its Year is valid and the Gregorian rule holds
\* for it; a supplied column is only standardised to boolean.
C8_ComputedFlagIffGregorian ==
  (Returned /\ FlagComputed) =>
     \A i \in 1..df.n :
        Column(df, IsLeapYearName)[i] = Bool_(GregorianCell(Column(df, YearName)[i]))

\* C8 witness: an upload without Is_Leap_Year whose first row is the leap
\* year 2024 and whose second row is the common year 1900
C8_Witness ==
  /\ pc = "loaded" /\ ~HasColumn(raw, IsLeapYearName) /\ raw.n = 2
  /\ Column(df, YearName) = <<Int_(2024), Int_(1900)>>
  /\ Column(df, IsLeapYearName) = <<Bool_(TRUE), Bool_(FALSE)>>

\* the run took the sample path
FromSample == pc # "start" /\ ~uploaded

C10_YearColumnChoice ==
  pc = "loaded" =>
     LET cols == raw.columns
         yearish == { j \in 1..Len(cols) : NameHasYear(cols[j]) }
         k == IF \E j \in 1..Len(cols) : cols[j] = YearName
              THEN 0
              ELSE CHOOSE j \in yearish : \A h \in yearish : j <= h
     IN  /\ Len(df.columns) >= Len(cols)
         /\ \A j \in 1..Len(cols) :
               df.columns[j] = (IF j = k THEN YearName ELSE cols[j])
         /\ \A j \in 1..Len(cols) :
               (j # k /\ cols[j] \notin {YearName, IsLeapYearName, LeapCodeName,
                                         LeapReasonName, YearNormalizedName})
                  => df.data[j] = raw.data[j]
         /\ k # 0 => \A i \in 1..raw.n :
               raw.data[k][i].t = "int" => df.data[k][i] = raw.data[k][i]

\* C10 witness: Birth_Year, ahead of YEAR, became Year; YEAR kept its label
C10_Witness ==
  /\ pc = "loaded" /\ raw.n = 2
  /\ raw.columns = <<NoteName, BirthYearName, UpperYearName>>
  /\ df.columns[2] = YearName /\ df.columns[3] = UpperYearName
  /\ df.data[2] = <<Int_(2000), Int_(2023)>>

====
